---- MODULE Spec2Model ----
(***************************************************************************)
(* A model of the fcc crate: the chunked delimiter seeker ByteSeeker and   *)
(* the Concat builder/writer of src/src/concat.rs, with the helpers of     *)
(* src/src/util.rs.                                                        *)
(*                                                                         *)
(* Bytes are small integers.  Offsets are 0-based as in the source; TLA+   *)
(* sequences are 1-based, so the byte at offset i of a stream s is s[i+1]. *)
(***************************************************************************)
EXTENDS Integers, Sequences, FiniteSets, TLC

\* ------------------------------------------------------------------ bounds
\* Longest stream handed to a ByteSeeker.
MaxStream == 4
\* Stand-in for the chunk size (the source value is 4096): the seeker's
\* algorithm reads it only through buf.len(), so the streams above span
\* several chunks with a small value.
ChunkBound == 2
\* Longest file handed to Concat, most files in one run, largest skip count.
MaxFileLen == 3
MaxFiles == 2
MaxSkip == 2

\* ------------------------------------------------------------------ bytes
\* b'\n' and b'\r'; XX is a byte that is neither (the 0 of the seeker's tests);
\* PAD, further down, is the first byte of the tests' " padding ".
NL == 10
CR == 13
XX == 0

\* concat.rs:365  const DEFUALT_CHUNK_SIZE: usize = 1024 * 4 (scaled, see ChunkBound)
DEFUALT_CHUNK_SIZE == ChunkBound

\* The delimiter the seeker is asked for, and the alphabet of its streams.
SeekByte == NL
StreamBytes == {NL, XX}

RECURSIVE SeqsUpTo(_, _)
SeqsUpTo(S, n) ==
    IF n = 0 THEN {<<>>}
    ELSE LET shorter == SeqsUpTo(S, n - 1)
         IN  shorter \cup {Append(q, x) : q \in {r \in shorter : Len(r) = n - 1}, x \in S}

Streams == SeqsUpTo(StreamBytes, MaxStream)

\* ------------------------------------------------------------- results
\* error.rs: ErrorKind.  "Ok" carries the offset in val; "Panic" is a Rust
\* panic (the thread unwinds, no value is returned).
OkR(v)  == [kind |-> "Ok", val |-> v]
ErrR(k) == [kind |-> k, val |-> 0]
NoRes   == [kind |-> "None", val |-> 0]

\* ------------------------------------------------- the underlying stream
\* std::io::Read::read_exact on a stream of Len(stream) bytes whose cursor is
\* at p, into a buffer of m bytes.  Short of m bytes the call fails with
\* UnexpectedEof; where the cursor is left then is not specified by std (a
\* File ends at the end of the stream, an older Cursor does not move), hence
\* the choice keep.
ReadExact(stream, p, m, keep) ==
    IF p + m <= Len(stream)
    THEN [ok |-> TRUE,  data |-> SubSeq(stream, p + 1, p + m), ipos |-> p + m]
    ELSE [ok |-> FALSE, data |-> <<>>, ipos |-> IF keep THEN p ELSE Len(stream)]

\* Iterator::position taken for the last match instead of the first.
PositionOfLast(data, byte) ==
    LET hits == {i \in 1..Len(data) : data[i] = byte}
    IN  IF hits = {} THEN -1
        ELSE (CHOOSE i \in hits : \A j \in hits : i >= j) - 1

\* Iterator::position: the 0-based index of the first element equal to byte.
Position(data, byte) ==
    LET hits == {i \in 1..Len(data) : data[i] = byte}
    IN  IF hits = {} THEN -1
        ELSE (CHOOSE i \in hits : \A j \in hits : i <= j) - 1

\* position() without the rev(): the index counted from the front.
PositionNoRev(data, byte) == Position(data, byte)

\* iter().rev().position(): the 0-based index, counted from the end, of the
\* last element equal to byte.
RevPosition(data, byte) ==
    LET hits == {i \in 1..Len(data) : data[i] = byte}
    IN  IF hits = {} THEN -1
        ELSE Len(data) - (CHOOSE i \in hits : \A j \in hits : i >= j)

\* ------------------------------------------------------------ ByteSeeker
\* concat.rs:370-378.  ipos is the cursor of `inner`, buflen is buf.len()
\* (the buffer's contents are overwritten by every read before they are
\* looked at, so only its length is state).  concat.rs:399-413
New(stream) ==
    [ipos    |-> 0,
     buflen  |-> DEFUALT_CHUNK_SIZE,
     len     |-> Len(stream),
     lpos    |-> 0,
     rpos    |-> IF Len(stream) = 0 THEN 0 ELSE Len(stream) - 1,
     done    |-> FALSE,
     oneleft |-> FALSE]

\* A reset that rewinds the cursors and leaves the exhaustion flags alone.
ResetCursorsOnly(s) ==
    [s EXCEPT !.ipos    = 0,
              !.buflen  = DEFUALT_CHUNK_SIZE,
              !.lpos    = 0,
              !.rpos    = IF s.len = 0 THEN 0 ELSE s.len - 1]

\* concat.rs:437-444
Reset(s) ==
    [s EXCEPT !.ipos    = 0,
              !.buflen  = DEFUALT_CHUNK_SIZE,
              !.lpos    = 0,
              !.rpos    = IF s.len = 0 THEN 0 ELSE s.len - 1,
              !.done    = FALSE,
              !.oneleft = FALSE]

\* set_len without the test that guards it.
SetLenUnguarded(remaining, buflen) == remaining

\* concat.rs:574-582 and 659-667: buf.len() after the guarded set_len, the
\* buffer being cut to the bytes that remain when they are fewer than it holds.
SetLen(remaining, buflen) == IF remaining < buflen THEN remaining ELSE buflen

\* What one call gives back: the seeker afterwards, the result, and the reads
\* it issued on the stream, each [pos, n] = n bytes asked for at cursor pos.
Out(s, res, reads) == [s |-> s, res |-> res, reads |-> reads]

\* concat.rs:557-566 and 640-650: the single-byte path shared by both walks.
OneByte(stream, s, byte, keep) ==
    LET r  == ReadExact(stream, s.ipos, 1, keep)
        rd == <<[pos |-> s.ipos, n |-> 1]>>
    IN  IF ~r.ok
        THEN Out([s EXCEPT !.ipos = r.ipos], ErrR("Io"), rd)
        ELSE LET s1 == [s EXCEPT !.ipos = r.ipos, !.done = TRUE]
             IN  IF r.data[1] = byte
                 THEN Out(s1, OkR(0), rd)
                 ELSE Out(s1, ErrR("ByteNotFound"), rd)

\* concat.rs:568-603: the chunk loop of seek.  An iteration that neither
\* returns nor changes the seeker is repeated for ever on the same bytes: the
\* call never returns, which the result kind "Loops" stands for.
RECURSIVE SeekLoop(_, _, _, _, _)
SeekLoop(stream, s, byte, keep, reads) ==
    LET remaining    == s.len - s.lpos
        is_last_read == remaining < s.buflen
        buflen       == SetLen(remaining, s.buflen)
        r            == ReadExact(stream, s.ipos, buflen, keep)
        rd           == Append(reads, [pos |-> s.ipos, n |-> buflen])
        s1           == [s EXCEPT !.buflen = buflen, !.ipos = r.ipos]
        pos          == Position(r.data, byte)
    IN  IF ~r.ok THEN Out(s1, ErrR("Io"), rd)
        ELSE IF pos >= 0
        THEN LET cpos == s.lpos + pos
                 s2   == [s1 EXCEPT !.ipos = cpos + 1, !.lpos = cpos + 1,
                                    !.oneleft = IF cpos + 1 > s.len - 1
                                                THEN TRUE ELSE s.oneleft]
             IN  Out(s2, OkR(cpos), rd)
        ELSE IF is_last_read
        THEN Out([s1 EXCEPT !.done = TRUE], ErrR("ByteNotFound"), rd)
        ELSE IF [s1 EXCEPT !.ipos = s.lpos + buflen, !.lpos = s.lpos + buflen] = s
        THEN Out(s1, ErrR("Loops"), rd)
        ELSE SeekLoop(stream,
                      [s1 EXCEPT !.ipos = s.lpos + buflen, !.lpos = s.lpos + buflen],
                      byte, keep, rd)

\* seek testing only the flag done before it reads.
SeekNoEmptyTest(stream, s, byte, keep) ==
    IF s.done THEN Out(s, ErrR("ByteNotFound"), <<>>)
    ELSE IF s.len = 1 \/ s.oneleft THEN OneByte(stream, s, byte, keep)
    ELSE SeekLoop(stream, s, byte, keep, <<>>)

\* concat.rs:552-604
Seek(stream, s, byte, keep) ==
    IF s.done \/ s.len = 0 THEN Out(s, ErrR("ByteNotFound"), <<>>)
    ELSE IF s.len = 1 \/ s.oneleft THEN OneByte(stream, s, byte, keep)
    ELSE SeekLoop(stream, s, byte, keep, <<>>)

\* concat.rs:652-696: the chunk loop of seek_back, "Loops" as in seek.
RECURSIVE SeekBackLoop(_, _, _, _, _)
SeekBackLoop(stream, s, byte, keep, reads) ==
    LET remaining    == s.rpos + 1
        is_last_read == remaining < s.buflen
        buflen       == SetLen(remaining, s.buflen)
        from         == remaining - buflen
        r            == ReadExact(stream, from, buflen, keep)
        rd           == Append(reads, [pos |-> from, n |-> buflen])
        s1           == [s EXCEPT !.buflen = buflen, !.rpos = from, !.ipos = r.ipos]
        pos          == RevPosition(r.data, byte)
    IN  IF ~r.ok THEN Out(s1, ErrR("Io"), rd)
        ELSE IF pos >= 0
        THEN LET cpos == from + (buflen - pos - 1)
             IN  IF cpos = 0
                 THEN Out([s1 EXCEPT !.done = TRUE], OkR(cpos), rd)
                 ELSE Out([s1 EXCEPT !.ipos = cpos - 1, !.rpos = cpos - 1,
                                     !.oneleft = IF cpos - 1 = 0
                                                 THEN TRUE ELSE s.oneleft],
                          OkR(cpos), rd)
        ELSE IF is_last_read
        THEN Out([s1 EXCEPT !.done = TRUE, !.ipos = 0, !.rpos = 0],
                 ErrR("ByteNotFound"), rd)
        ELSE IF s1 = s THEN Out(s1, ErrR("Loops"), rd)
        ELSE SeekBackLoop(stream, s1, byte, keep, rd)

\* concat.rs:634-697
SeekBack(stream, s, byte, keep) ==
    IF s.done \/ s.len = 0 THEN Out(s, ErrR("ByteNotFound"), <<>>)
    ELSE IF s.len = 1 \/ s.oneleft THEN OneByte(stream, s, byte, keep)
    ELSE SeekBackLoop(stream, s, byte, keep, <<>>)

\* seek (concat.rs:552-583) when the first read_exact it issues fails with an
\* error of the device, which `?` hands back as ErrorKind::Io (error.rs:72-76).
\* std does not say where a failed read leaves the cursor: it stays (keep) or
\* ends at the end of the stream, as in ReadExact.
FailedAt(stream, p, keep) == IF keep THEN p ELSE Len(stream)

SeekFailing(stream, s, byte, keep) ==
    IF s.done \/ s.len = 0 THEN Out(s, ErrR("ByteNotFound"), <<>>)
    ELSE IF s.len = 1 \/ s.oneleft
    THEN Out([s EXCEPT !.ipos = FailedAt(stream, s.ipos, keep)], ErrR("Io"),
             <<[pos |-> s.ipos, n |-> 1]>>)
    ELSE LET remaining == s.len - s.lpos
             buflen    == SetLen(remaining, s.buflen)
         IN  Out([s EXCEPT !.buflen = buflen,
                           !.ipos = FailedAt(stream, s.ipos, keep)], ErrR("Io"),
                 <<[pos |-> s.ipos, n |-> buflen]>>)

\* seek_back (concat.rs:634-672) when its first read_exact fails likewise: the
\* buffer is cut (663) and rpos assigned (668-670) before the read (672).
SeekBackFailing(stream, s, byte, keep) ==
    IF s.done \/ s.len = 0 THEN Out(s, ErrR("ByteNotFound"), <<>>)
    ELSE IF s.len = 1 \/ s.oneleft
    THEN Out([s EXCEPT !.ipos = FailedAt(stream, s.ipos, keep)], ErrR("Io"),
             <<[pos |-> s.ipos, n |-> 1]>>)
    ELSE LET remaining == s.rpos + 1
             buflen    == SetLen(remaining, s.buflen)
             from      == remaining - buflen
         IN  Out([s EXCEPT !.buflen = buflen, !.rpos = from,
                           !.ipos = FailedAt(stream, from, keep)],
                 ErrR("Io"), <<[pos |-> from, n |-> buflen]>>)

\* `counter -= 1` on a usize (concat.rs:478, 517).  With overflow checks (a
\* debug build) 0 - 1 panics; without them it wraps to 2^64 - 1, written here
\* in two's complement as -1: the values below 0 stand for 2^64 + v, and the
\* countdown meets 0 again only after 2^64 - 1 further steps.
Decrement(counter, checks) ==
    IF counter = 0 /\ checks THEN [panic |-> TRUE, v |-> 0]
    ELSE [panic |-> FALSE, v |-> counter - 1]

\* concat.rs:476-482: the loop of seek_nth.  SeekNthStep is one turn of it
\* after `self.seek(byte)` has given o.
RECURSIVE SeekNthLoop(_, _, _, _, _, _, _)
RECURSIVE SeekNthStep(_, _, _, _, _, _, _)
SeekNthStep(stream, o, byte, d, keep, checks, reads) ==
    IF o.res.kind # "Ok" THEN Out(o.s, o.res, reads \o o.reads)
    ELSE IF d.panic THEN Out(o.s, ErrR("Panic"), reads \o o.reads)
    ELSE IF d.v = 0 THEN Out(o.s, o.res, reads \o o.reads)
    ELSE SeekNthLoop(stream, o.s, byte, d.v, keep, checks, reads \o o.reads)

SeekNthLoop(stream, s, byte, counter, keep, checks, reads) ==
    SeekNthStep(stream, Seek(stream, s, byte, keep), byte,
                Decrement(counter, checks), keep, checks, reads)

\* concat.rs:474-483

SeekNth(stream, s, byte, nth, keep, checks) ==
    SeekNthLoop(stream, s, byte, nth, keep, checks, <<>>)

\* concat.rs:515-521: the loop of seek_nth_back, one turn of it after
\* `self.seek_back(byte)` has given o.
RECURSIVE SeekNthBackLoop(_, _, _, _, _, _, _)
RECURSIVE SeekNthBackStep(_, _, _, _, _, _, _)
SeekNthBackStep(stream, o, byte, d, keep, checks, reads) ==
    IF o.res.kind # "Ok" THEN Out(o.s, o.res, reads \o o.reads)
    ELSE IF d.panic THEN Out(o.s, ErrR("Panic"), reads \o o.reads)
    ELSE IF d.v = 0 THEN Out(o.s, o.res, reads \o o.reads)
    ELSE SeekNthBackLoop(stream, o.s, byte, d.v, keep, checks, reads \o o.reads)

SeekNthBackLoop(stream, s, byte, counter, keep, checks, reads) ==
    SeekNthBackStep(stream, SeekBack(stream, s, byte, keep), byte,
                    Decrement(counter, checks), keep, checks, reads)

\* concat.rs:513-522

SeekNthBack(stream, s, byte, nth, keep, checks) ==
    SeekNthBackLoop(stream, s, byte, nth, keep, checks, <<>>)

\* ------------------------------------------------------------------ util
\* util.rs:29-38  get_last_byte on a reader whose cursor is at p: the result
\* and where the cursor is afterwards.  SeekFrom::End(-1) fails on an empty
\* reader, and then nothing has moved.
GetLastByte(stream, p) ==
    IF Len(stream) = 0
    THEN [kind |-> "SeekNegative", val |-> 0, pos |-> p]
    ELSE [kind |-> "Ok", val |-> stream[Len(stream)], pos |-> 0]

\* ends_with_newline handing every error of get_last_byte on.
EndsWithNewlineRaw(stream) ==
    LET byte == GetLastByte(stream, 0)
    IN  IF byte.kind = "Ok" THEN [kind |-> "Ok", val |-> (byte.val = NL)]
        ELSE [kind |-> byte.kind, val |-> FALSE]

\* util.rs:72-84
EndsWithNewline(stream) ==
    LET byte == GetLastByte(stream, 0)
    IN  IF byte.kind = "Ok" THEN [kind |-> "Ok", val |-> (byte.val = NL)]
        ELSE IF byte.kind = "SeekNegative" THEN [kind |-> "Ok", val |-> FALSE]
        ELSE [kind |-> byte.kind, val |-> FALSE]

\* ---------------------------------------------------------------- Concat
PAD == 32
FileBytes == {NL, CR, XX}
\* The files of a run.  A '\r' is looked at by the code only where it stands
\* right before a '\n' (concat.rs:333-340), so the files carry it only there.
FileContents ==
    {f \in SeqsUpTo(FileBytes, MaxFileLen) :
        \A i \in 1..Len(f) : f[i] = CR => (i < Len(f) /\ f[i + 1] = NL)}
PathLists == SeqsUpTo(FileContents, MaxFiles)
Paddings == {<<PAD>>}

\* concat.rs:46-54  ConcatOptions and its Default; padding is an Option.
DefaultOpts ==
    [skip_start |-> 0, skip_end |-> 0, header |-> FALSE, newline |-> FALSE,
     crlf |-> FALSE, padding |-> [some |-> FALSE, bytes |-> <<>>]]

\* concat.rs:96-99
ViewOf(o) == o.newline \/ o.header \/ o.skip_start # 0 \/ o.skip_end # 0

\* concat.rs:142-145
SkipStart(o, skip) == [o EXCEPT !.skip_start = skip]

\* A header that sets its own flag and nothing else.
HeaderOnly(o, h) == [o EXCEPT !.header = h]

\* concat.rs:190-194
Header(o, h) == [o EXCEPT !.header = h, !.skip_start = 1]

\* concat.rs:356
NewlineBytes(o) == IF o.crlf THEN <<CR, NL>> ELSE <<NL>>

\* BufRead::read_until(b'\n'): up to and including the first '\n', or all.
ReadUntilNL(file) ==
    LET p == Position(file, NL)
    IN  IF p < 0 THEN file ELSE SubSeq(file, 1, p + 1)

\* concat.rs:247-258
GetHeader(paths) ==
    IF Len(paths) = 0 THEN [kind |-> "NothingPassed", bytes |-> <<>>]
    ELSE [kind |-> "Ok", bytes |-> ReadUntilNL(paths[1])]

\* `x - 1` on an unsigned offset handed to seek(SeekFrom::Start(..)),
\* concat.rs:333 and 343.  At x = 0 a build with overflow checks panics; one
\* without asks the file for offset 2^64 - 1, which File::seek refuses (Io).
SeekToPrev(x, checks) ==
    IF x > 0 THEN "Ok" ELSE IF checks THEN "Panic" ELSE "Io"

\* What write_contents did with one file: the file bytes it copied, the
\* offset in the file of the first of them, the terminator it appended, and
\* how it ended.
Part(content, term, kind) ==
    [content |-> content, from |-> 0, term |-> term, kind |-> kind]

\* concat.rs:336-340: the limit given to take(), the byte at offset end - 1
\* being file[end].
TakeLimit(file, end) == IF file[end] = CR THEN end - 1 ELSE end

\* concat.rs:333-352, start and end being known.  `handle` is the reader
\* limited by take(TakeLimit); handle.into_inner() at line 342 gives the
\* reader back without the limit, so the copy loop runs from offset start - 1
\* to the end of the file.
CopyRange(file, start, end, checks) ==
    IF SeekToPrev(end, checks) # "Ok"
    THEN Part(<<>>, <<>>, SeekToPrev(end, checks))
    ELSE IF SeekToPrev(start, checks) # "Ok"
    THEN Part(<<>>, <<>>, SeekToPrev(start, checks))
    ELSE [Part(SubSeq(file, start, Len(file)), <<>>, "Ok") EXCEPT !.from = start - 1]

\* concat.rs:327-329, `first` being what the seek_nth of line 326 gave.
TrimBack(file, first, second, checks) ==
    IF second.res.kind # "Ok" THEN Part(<<>>, <<>>, second.res.kind)
    ELSE CopyRange(file, first.res.val, second.res.val, checks)

\* concat.rs:326-327
TrimFront(file, o, first, keep, checks) ==
    IF first.res.kind # "Ok" THEN Part(<<>>, <<>>, first.res.kind)
    ELSE TrimBack(file, first,
                  SeekNthBack(file, Reset(first.s), NL, o.skip_end, keep, checks),
                  checks)

\* concat.rs:324-353: the trimming branch.
TrimCopy(file, o, keep, checks) ==
    TrimFront(file, o, SeekNth(file, New(file), NL, o.skip_end, keep, checks),
              keep, checks)

\* concat.rs:355-358
Terminate(copied, o, v, ends_nl) ==
    IF copied.kind = "Ok" /\ v /\ o.newline /\ ~ends_nl
    THEN [copied EXCEPT !.term = NewlineBytes(o)]
    ELSE copied

\* concat.rs:315-362
WriteContents(file, o, v, keep, checks) ==
    Terminate(IF ~v THEN Part(file, <<>>, "Ok")
              ELSE IF o.skip_start > 0 \/ o.skip_end > 0
              THEN TrimCopy(file, o, keep, checks)
              ELSE Part(<<>>, <<>>, "Ok"),
              o, v, EndsWithNewline(file).val)

\* What write did: the bytes in the sink, how it ended, and one Part per file
\* it got to.
Written(sink, kind, parts) == [sink |-> sink, kind |-> kind, parts |-> parts]

\* concat.rs:286-292: the loop over the files, from file i on.  WriteFile is
\* one turn of it after write_contents has given part.
RECURSIVE WriteFiles(_, _, _, _, _, _, _, _)
RECURSIVE WriteFile(_, _, _, _, _, _, _, _, _)
\* A loop that notes the error of a file and goes on with the next.
WriteFileCarriesOn(paths, i, o, v, keep, checks, sink, parts, part) ==
    WriteFiles(paths, i + 1, o, v, keep, checks,
               sink \o part.content \o part.term
                    \o (IF o.padding.some THEN o.padding.bytes ELSE <<>>),
               Append(parts, part))

WriteFile(paths, i, o, v, keep, checks, sink, parts, part) ==
    IF part.kind # "Ok"
    THEN Written(sink \o part.content \o part.term, part.kind, Append(parts, part))
    ELSE WriteFiles(paths, i + 1, o, v, keep, checks,
                    sink \o part.content \o part.term
                         \o (IF o.padding.some THEN o.padding.bytes ELSE <<>>),
                    Append(parts, part))

WriteFiles(paths, i, o, v, keep, checks, sink, parts) ==
    IF i > Len(paths) THEN Written(sink, "Ok", parts)
    ELSE WriteFile(paths, i, o, v, keep, checks, sink, parts,
                   WriteContents(paths[i], o, v, keep, checks))

\* concat.rs:294-302: the terminator after the last file.  With no path,
\* paths.len() - 1 underflows or indexes out of bounds: a panic either way.
WriteTail(paths, o, w) ==
    IF w.kind # "Ok" THEN w
    ELSE IF Len(paths) = 0 THEN [w EXCEPT !.kind = "Panic"]
    ELSE IF ~EndsWithNewline(paths[Len(paths)]).val
    THEN [w EXCEPT !.sink = w.sink \o NewlineBytes(o)]
    ELSE w

\* concat.rs:274-305 with write_header, 307-313.  Every path names a regular
\* file, so the metadata loop at 277-281 passes.
Write(paths, o, v, keep, checks) ==
    LET header == IF o.header THEN GetHeader(paths)
                  ELSE [kind |-> "Ok", bytes |-> <<>>]
    IN  IF header.kind # "Ok" THEN Written(<<>>, header.kind, <<>>)
        ELSE WriteTail(paths, o,
                 WriteFiles(paths, 1, o, v, keep, checks, header.bytes, <<>>))

\* ------------------------------------------------------- reference notions
\* The offsets at which byte occurs in stream, and the j-th of them counted
\* from the head and from the tail (j in 1..NumOcc).
Occ(stream, byte) == {i \in 0..(Len(stream) - 1) : stream[i + 1] = byte}
NumOcc(stream, byte) == Cardinality(Occ(stream, byte))
NthFromHead(stream, byte, j) ==
    CHOOSE i \in Occ(stream, byte) :
        Cardinality({m \in Occ(stream, byte) : m < i}) = j - 1
NthFromTail(stream, byte, j) ==
    CHOOSE i \in Occ(stream, byte) :
        Cardinality({m \in Occ(stream, byte) : m > i}) = j - 1
Min(a, b) == IF a < b THEN a ELSE b

\* The files' bytes one after the other.
RECURSIVE Flatten(_)
Flatten(files) ==
    IF Len(files) = 0 THEN <<>> ELSE Head(files) \o Flatten(Tail(files))

\* Lines of a file: the '\n'-terminated ones, plus the unterminated rest if any.
NumLines(file) ==
    NumOcc(file, NL) + (IF Len(file) > 0 /\ file[Len(file)] # NL THEN 1 ELSE 0)
\* The file from the byte after its n-th '\n' on (1 <= n <= NumOcc).
AfterNthNL(file, n) == SubSeq(file, NthFromHead(file, NL, n) + 2, Len(file))
\* The file without its last n lines (n >= 1).
DropLastLines(file, n) ==
    IF n >= NumLines(file) THEN <<>>
    ELSE SubSeq(file, 1, NthFromHead(file, NL, NumLines(file) - n) + 1)

\* ------------------------------------------------- the merger behind main
\* main.rs drives admerge's FileMerger, whose code is not part of the source
\* tree; the merger is modelled from the design document, sections 4.2-4.4,
\* with the expectations of tests/cli.rs deciding where the document leaves a
\* choice.  `run` itself (main.rs:133-239) is modelled from its code.

\* Option<usize> and the Skip directive.
NoneV == [some |-> FALSE, n |-> 0]
SomeV(n) == [some |-> TRUE, n |-> n]
NoSkip == [tag |-> "None", n |-> 0]
SkipV(tag, n) == [tag |-> tag, n |-> n]

\* 4.2: a once-variant is not applied at its boundary of the sequence.
EffectiveSkip(skip, at_boundary) ==
    IF skip.tag \in {"LinesOnce", "BytesOnce"} /\ at_boundary THEN 0
    ELSE IF skip.tag = "None" THEN 0 ELSE skip.n

ByteMode(skip) == skip.tag \in {"Bytes", "BytesOnce"}

\* 4.2: the lines a file can give: its '\n' bytes, plus one if it does not end
\* in '\n'.
Addressable(file) ==
    NumOcc(file, NL) + (IF Len(file) > 0 /\ file[Len(file)] # NL THEN 1 ELSE 0)

\* 4.2, head: the offset where the kept content starts, or the
\* insufficient-content condition.
ResolveHead(file, skip, is_first) ==
    LET n == EffectiveSkip(skip, is_first)
    IN  IF n = 0 THEN [kind |-> "Ok", at |-> 0]
        ELSE IF ByteMode(skip)
        THEN IF n <= Len(file) THEN [kind |-> "Ok", at |-> n]
             ELSE [kind |-> "InsufficientContent", at |-> 0]
        ELSE IF n <= NumOcc(file, NL)
        THEN [kind |-> "Ok", at |-> NthFromHead(file, NL, n) + 1]
        ELSE IF n = Addressable(file) THEN [kind |-> "Ok", at |-> Len(file)]
        ELSE [kind |-> "InsufficientContent", at |-> 0]

\* 4.2, tail: the offset where the kept content ends (exclusive).  The last n
\* lines go; the terminator of the line before them stays.
ResolveTail(file, skip, is_last) ==
    LET n == EffectiveSkip(skip, is_last)
        k == Addressable(file)
    IN  IF n = 0 THEN [kind |-> "Ok", at |-> Len(file)]
        ELSE IF ByteMode(skip)
        THEN IF n <= Len(file) THEN [kind |-> "Ok", at |-> Len(file) - n]
             ELSE [kind |-> "InsufficientContent", at |-> 0]
        ELSE IF n < k THEN [kind |-> "Ok", at |-> NthFromHead(file, NL, k - n) + 1]
        ELSE IF n = k THEN [kind |-> "Ok", at |-> 0]
        ELSE [kind |-> "InsufficientContent", at |-> 0]

\* 4.2: the two boundaries are resolved independently; start > end collapses
\* to the empty range.  3: TrimRange, 0 <= start <= end <= length.
TrimRange(file, m, is_first, is_last) ==
    LET h == ResolveHead(file, m.head, is_first)
        e == ResolveTail(file, m.tail, is_last)
    IN  IF h.kind # "Ok" THEN [kind |-> h.kind, start |-> 0, end |-> 0]
        ELSE IF e.kind # "Ok" THEN [kind |-> e.kind, start |-> 0, end |-> 0]
        ELSE IF h.at > e.at THEN [kind |-> "Ok", start |-> e.at, end |-> e.at]
        ELSE [kind |-> "Ok", start |-> h.at, end |-> e.at]

\* 4.3 PadPlanner.  A Pad is three optional byte strings; Before(b), After(b)
\* and Between(b) set one of them.
NoBytes == [some |-> FALSE, bytes |-> <<>>]
SomeBytes(b) == [some |-> TRUE, bytes |-> b]
Custom(before, between, after) ==
    [before |-> before, between |-> between, after |-> after]
NoPad == Custom(NoBytes, NoBytes, NoBytes)
Before(b) == Custom(SomeBytes(b), NoBytes, NoBytes)
Between(b) == Custom(NoBytes, SomeBytes(b), NoBytes)
After(b) == Custom(NoBytes, NoBytes, SomeBytes(b))

pad_before(pad, is_first) ==
    IF is_first /\ pad.before.some THEN pad.before.bytes ELSE <<>>
\* After the last file the After padding only, as tests/cli.rs:627-643 has it.
pad_after(pad, is_last) ==
    IF is_last THEN (IF pad.after.some THEN pad.after.bytes ELSE <<>>)
    ELSE IF pad.between.some THEN pad.between.bytes ELSE <<>>

\* 4.4: the terminator after a file's emitted content.
Terminator(content, newline) ==
    IF newline = "None" THEN <<>>
    ELSE IF Len(content) > 0 /\ content[Len(content)] = NL THEN <<>>
    ELSE IF newline = "Crlf" THEN <<CR, NL>> ELSE <<NL>>

\* 4.4: what the writer emits for the file in slot i: pad, trimmed content,
\* terminator, pad.
Slot(files, i, m) ==
    LET file  == files[i]
        range == TrimRange(file, m, i = 1, i = Len(files))
        body  == SubSeq(file, range.start + 1, range.end)
    IN  [kind    |-> range.kind,
         before  |-> pad_before(m.pad, i = 1),
         content |-> IF range.kind = "Ok" THEN body ELSE <<>>,
         term    |-> IF range.kind = "Ok" THEN Terminator(body, m.newline) ELSE <<>>,
         after   |-> pad_after(m.pad, i = Len(files))]

SlotBytes(slot) ==
    IF slot.kind = "Ok"
    THEN slot.before \o slot.content \o slot.term \o slot.after
    ELSE slot.before

\* 4.4 and 7: the files in order; the first failure aborts the run.
Merged(sink, kind, parts) == [sink |-> sink, kind |-> kind, parts |-> parts]

RECURSIVE MergeFrom(_, _, _, _)
MergeSlot(files, m, acc, slot) ==
    IF slot.kind # "Ok"
    THEN Merged(acc.sink \o SlotBytes(slot), slot.kind, Append(acc.parts, slot))
    ELSE MergeFrom(files, Len(acc.parts) + 2, m,
                   Merged(acc.sink \o SlotBytes(slot), "Ok", Append(acc.parts, slot)))

MergeFrom(files, i, m, acc) ==
    IF i > Len(files) THEN acc
    ELSE MergeSlot(files, m, acc, Slot(files, i, m))

\* FileMerger::with_paths; 7: EmptyInput when no file is supplied.
with_paths(files, m) ==
    IF Len(files) = 0 THEN Merged(<<>>, "EmptyInput", <<>>)
    ELSE MergeFrom(files, 1, m, Merged(<<>>, "Ok", <<>>))

\* FileMerger::new(): nothing skipped, no padding, no forced newline.
FileMergerNew == [head |-> NoSkip, tail |-> NoSkip, newline |-> "None", pad |-> NoPad]

\* RunHead with the once flags read as plain skips.
RunHeadOnceAsEach(o) ==
    IF o.skip_mode = "lines"
    THEN IF o.headonce THEN SkipV("Lines", 1)
         ELSE IF o.skip_head_once.some THEN SkipV("Lines", o.skip_head_once.n)
         ELSE IF o.skip_head.some THEN SkipV("Lines", o.skip_head.n)
         ELSE NoSkip
    ELSE IF o.skip_head_once.some THEN SkipV("Bytes", o.skip_head_once.n)
         ELSE IF o.skip_head.some THEN SkipV("Bytes", o.skip_head.n)
         ELSE NoSkip

\* RunHead with the arm of skip_head_once a copy of the arm of headonce.
RunHeadOnceOfOne(o) ==
    IF o.skip_mode = "lines"
    THEN IF o.headonce THEN SkipV("LinesOnce", 1)
         ELSE IF o.skip_head_once.some THEN SkipV("LinesOnce", 1)
         ELSE IF o.skip_head.some THEN SkipV("Lines", o.skip_head.n)
         ELSE NoSkip
    ELSE IF o.skip_head_once.some THEN SkipV("BytesOnce", 1)
         ELSE IF o.skip_head.some THEN SkipV("Bytes", o.skip_head.n)
         ELSE NoSkip

\* RunHead without the match on skip_mode: every count is a count of lines.
RunHeadModeIgnored(o) ==
    IF o.headonce /\ o.skip_mode = "lines" THEN SkipV("LinesOnce", 1)
    ELSE IF o.skip_head_once.some THEN SkipV("LinesOnce", o.skip_head_once.n)
    ELSE IF o.skip_head.some THEN SkipV("Lines", o.skip_head.n)
    ELSE NoSkip

\* main.rs:153-189: the skip_head / skip_tail calls of run, a later call
\* replacing an earlier one.  In bytes mode headonce and tailonce are not
\* looked at.
RunHead(o) ==
    IF o.skip_mode = "lines"
    THEN IF o.headonce THEN SkipV("LinesOnce", 1)
         ELSE IF o.skip_head_once.some THEN SkipV("LinesOnce", o.skip_head_once.n)
         ELSE IF o.skip_head.some THEN SkipV("Lines", o.skip_head.n)
         ELSE NoSkip
    ELSE IF o.skip_head_once.some THEN SkipV("BytesOnce", o.skip_head_once.n)
         ELSE IF o.skip_head.some THEN SkipV("Bytes", o.skip_head.n)
         ELSE NoSkip

\* RunTail with the once flags read as plain skips.
RunTailOnceAsEach(o) ==
    IF o.skip_mode = "lines"
    THEN IF o.tailonce THEN SkipV("Lines", 1)
         ELSE IF o.skip_tail_once.some THEN SkipV("Lines", o.skip_tail_once.n)
         ELSE IF o.skip_tail.some THEN SkipV("Lines", o.skip_tail.n)
         ELSE NoSkip
    ELSE IF o.skip_tail_once.some THEN SkipV("Bytes", o.skip_tail_once.n)
         ELSE IF o.skip_tail.some THEN SkipV("Bytes", o.skip_tail.n)
         ELSE NoSkip

RunTail(o) ==
    IF o.skip_mode = "lines"
    THEN IF o.tailonce THEN SkipV("LinesOnce", 1)
         ELSE IF o.skip_tail_once.some THEN SkipV("LinesOnce", o.skip_tail_once.n)
         ELSE IF o.skip_tail.some THEN SkipV("Lines", o.skip_tail.n)
         ELSE NoSkip
    ELSE IF o.skip_tail_once.some THEN SkipV("BytesOnce", o.skip_tail_once.n)
         ELSE IF o.skip_tail.some THEN SkipV("Bytes", o.skip_tail.n)
         ELSE NoSkip

\* RunNewline with the two styles swapped.
RunNewlineSwapped(o) ==
    IF ~o.newline THEN "None"
    ELSE IF o.newline_style = "crlf" THEN "Lf" ELSE "Crlf"

\* main.rs:191-201
RunNewline(o) ==
    IF ~o.newline THEN "None"
    ELSE IF o.newline_style = "crlf" THEN "Crlf" ELSE "Lf"

\* RunPad with the arms of beforestart and afterend swapped.
RunPadSwapped(o) ==
    IF ~o.padding.some THEN NoPad
    ELSE IF o.pad_mode = "beforestart" THEN After(o.padding.bytes)
    ELSE IF o.pad_mode = "afterend" THEN Before(o.padding.bytes)
    ELSE IF o.pad_mode = "between" THEN Between(o.padding.bytes)
    ELSE Custom(SomeBytes(o.padding.bytes), SomeBytes(o.padding.bytes),
                SomeBytes(o.padding.bytes))

\* RunPad whose all arm leaves the third position empty.
RunPadAllWithoutAfter(o) ==
    IF ~o.padding.some THEN NoPad
    ELSE IF o.pad_mode = "beforestart" THEN Before(o.padding.bytes)
    ELSE IF o.pad_mode = "afterend" THEN After(o.padding.bytes)
    ELSE IF o.pad_mode = "between" THEN Between(o.padding.bytes)
    ELSE Custom(SomeBytes(o.padding.bytes), SomeBytes(o.padding.bytes),
                NoBytes)

\* main.rs:203-225
RunPad(o) ==
    IF ~o.padding.some THEN NoPad
    ELSE IF o.pad_mode = "beforestart" THEN Before(o.padding.bytes)
    ELSE IF o.pad_mode = "afterend" THEN After(o.padding.bytes)
    ELSE IF o.pad_mode = "between" THEN Between(o.padding.bytes)
    ELSE Custom(SomeBytes(o.padding.bytes), SomeBytes(o.padding.bytes),
                SomeBytes(o.padding.bytes))

\* main.rs:152-225: the merger run configures.
Configure(o) ==
    [FileMergerNew EXCEPT !.head = RunHead(o), !.tail = RunTail(o),
                          !.newline = RunNewline(o), !.pad = RunPad(o)]

\* main.rs:133-239
Run(o, files) == with_paths(files, Configure(o))

\* tests/cli.rs:8-18: the three files of the tests, and their padding.
TestingFiles ==
    << <<49, 49, 49, 32, 49, 49, 50, 10, 49, 50, 49, 32, 49, 50, 50, 10,
         49, 51, 49, 32, 49, 51, 50, 10>>,
       <<50, 49, 49, 32, 50, 49, 50, 10, 50, 50, 49, 32, 50, 50, 50, 10,
         50, 51, 49, 32, 50, 51, 50, 10>>,
       <<51, 49, 49, 32, 51, 49, 50, 10, 51, 51, 50, 32, 51, 50, 50, 10,
         51, 51, 49, 32, 51, 51, 50>> >>
PaddingText == <<32, 112, 97, 100, 100, 105, 110, 103, 32>>

\* Input files in the manner of the tests' files: the line i of the file in
\* slot j is one byte naming j and i, the lines end in '\n' except possibly
\* the last, and a file has at most MaxFileLen bytes.
LineByte(j, i) == 48 + 16 * (j - 1) + i

RECURSIVE LinesOf(_, _, _)
LinesOf(j, from, to) ==
    IF from > to THEN <<>>
    ELSE <<LineByte(j, from), NL>> \o LinesOf(j, from + 1, to)

FilesFor(j) ==
    {LinesOf(j, 1, k) : k \in 0..(MaxFileLen \div 2)}
    \cup {LinesOf(j, 1, k) \o <<LineByte(j, k + 1)>> : k \in 0..((MaxFileLen - 1) \div 2)}

RECURSIVE InputsOf(_)
InputsOf(n) ==
    IF n = 0 THEN {<<>>}
    ELSE {Append(fs, f) : fs \in InputsOf(n - 1), f \in FilesFor(n)}

InputLists == UNION {InputsOf(n) : n \in 0..MaxFiles} \cup {TestingFiles}

\* main.rs:24-120: Opts.  The skip options of one end conflict with each
\* other (conflicts_with), so at most one of them is given.
DefaultCli ==
    [skip_head |-> NoneV, skip_head_once |-> NoneV, headonce |-> FALSE,
     skip_tail |-> NoneV, skip_tail_once |-> NoneV, tailonce |-> FALSE,
     skip_mode |-> "lines", padding |-> NoBytes, pad_mode |-> "between",
     newline |-> FALSE, newline_style |-> "lf"]

Counts == {SomeV(n) : n \in 0..MaxSkip}

HeadArgs ==
    {DefaultCli}
    \cup {[DefaultCli EXCEPT !.skip_head = v] : v \in Counts}
    \cup {[DefaultCli EXCEPT !.skip_head_once = v] : v \in Counts}
    \cup {[DefaultCli EXCEPT !.headonce = TRUE]}

TailArgs ==
    {DefaultCli}
    \cup {[DefaultCli EXCEPT !.skip_tail = v] : v \in Counts}
    \cup {[DefaultCli EXCEPT !.skip_tail_once = v] : v \in Counts}
    \cup {[DefaultCli EXCEPT !.tailonce = TRUE]}

CliOpts ==
    {[h EXCEPT !.skip_tail = t.skip_tail, !.skip_tail_once = t.skip_tail_once,
               !.tailonce = t.tailonce, !.skip_mode = m,
               !.padding = p, !.pad_mode = pm,
               !.newline = n, !.newline_style = ns] :
        h \in HeadArgs, t \in TailArgs, m \in {"lines", "bytes"},
        p \in {NoBytes, SomeBytes(PaddingText)},
        pm \in {"beforestart", "afterend", "between", "all"},
        n \in BOOLEAN, ns \in {"lf", "crlf"}}

\* ------------------------------------------------------------------ state
VARIABLES
    stream,   \* the bytes behind the seeker's `inner`
    sk,       \* the ByteSeeker under test
    ref,      \* a seeker created fresh at the last reset (or at creation) and
              \* given the same calls since
    fw,       \* a seeker given only the forward calls since creation / reset
    bw,       \* a seeker given only the backward calls since creation / reset
    call,     \* the last call on sk: [op, n, res, reads]
    solo,     \* the result the same call had on fw (forward) or bw (backward)
    refRes,   \* the result the same call had on ref
    hist,     \* bookkeeping about the calls so far, see HistInit
    prev,     \* hist as it was before the last call
    opts,     \* Concat.opts
    view,     \* Concat.view
    paths,    \* Concat.paths, each path standing for its file's bytes
    phase,    \* "new" until open, then "opened", "written" once write has run
    out,      \* what write did: [sink, kind, parts]
    cli,      \* main's Opts, as parsed from the command line
    inputs,   \* the files main's input paths name, each as its bytes
    mphase,   \* "start" until main has run, then "done"
    merged,   \* what run wrote and how it ended: [sink, kind, parts]
    rd,       \* a reader handed to util: [data, pos], pos being its cursor
    ucall     \* the last call of util on rd: [op, res, before]

seekerVars == <<stream, sk, ref, fw, bw, call, solo, refRes, hist, prev>>
concatVars == <<opts, view, paths, phase, out>>
mergeVars == <<cli, inputs, mphase, merged>>
utilVars == <<rd, ucall>>
vars == <<seekerVars, concatVars, mergeVars, utilVars>>

FwdOps  == {"seek", "seek_nth"}
BackOps == {"seek_back", "seek_nth_back"}
SeekOps == FwdOps \cup BackOps

\* phase: "fresh" until the first call, "reset" right after a reset, else
\* "used".  fwdN / backN: how many occurrences the calls since creation or
\* reset have asked for in each direction, capped at the number there is.
\* fwdFailed / backFailed: a call in that direction has failed after asking for
\* n >= 1 occurrences, more than were left.  dirty (in phase "reset"): the reset was
\* applied to a seeker that differed from a freshly created one.  fwdOut /
\* backOut: a call in that direction has failed, so its walk is at its end.
HistInit ==
    [phase |-> "fresh", fwdN |-> 0, backN |-> 0,
     fwdFailed |-> FALSE, backFailed |-> FALSE, dirty |-> FALSE,
     fwdOut |-> FALSE, backOut |-> FALSE]

\* A request for n occurrences; nth = 0 never counts down to zero.
Wanted(n) == IF n = 0 THEN MaxStream + 1 ELSE n

AfterForward(h, n, res) ==
    LET k == NumOcc(stream, SeekByte)
    IN  [h EXCEPT !.phase = "used", !.dirty = FALSE,
                  !.fwdN = Min(k, h.fwdN + Wanted(n)),
                  !.fwdOut = h.fwdOut \/ res.kind \in {"ByteNotFound", "Io"},
                  !.fwdFailed = h.fwdFailed
                                \/ (n >= 1 /\ h.fwdN + n > k
                                    /\ res.kind \in {"ByteNotFound", "Io"})]

AfterBackward(h, n, res) ==
    LET k == NumOcc(stream, SeekByte)
    IN  [h EXCEPT !.phase = "used", !.dirty = FALSE,
                  !.backN = Min(k, h.backN + Wanted(n)),
                  !.backOut = h.backOut \/ res.kind \in {"ByteNotFound", "Io"},
                  !.backFailed = h.backFailed
                                 \/ (n >= 1 /\ h.backN + n > k
                                     /\ res.kind \in {"ByteNotFound", "Io"})]

\* The counts a caller asks for: up to one more than there are occurrences
\* (every larger count fails the same way), and 0.
NthChoices == 0..(NumOcc(stream, SeekByte) + 1)
\* Whether the build checks arithmetic overflow shows only where a subtraction
\* can go below zero, which in seek_nth / seek_nth_back is nth = 0.
ChecksChoices(n) == IF n = 0 THEN BOOLEAN ELSE {TRUE}
\* Where a failed read leaves the cursor shows only in a call that ends in Io.
KeepChoices(res) == IF res.kind = "Io" THEN BOOLEAN ELSE {TRUE}

Call(op, n, o) == [op |-> op, n |-> n, res |-> o.res, reads |-> o.reads]

\* A panic unwinds the thread and a call that loops never returns: nothing is
\* called on the seeker afterwards.
Alive == call.res.kind \notin {"Panic", "Loops"}

\* concat.rs:71-77  Concat::new()
ConcatNew ==
    /\ opts = DefaultOpts /\ view = FALSE /\ paths = <<>>
    /\ phase = "new" /\ out = Written(<<>>, "None", <<>>)

SeekerNew(st) ==
    /\ stream = st
    /\ sk = New(stream) /\ ref = New(stream)
    /\ fw = New(stream) /\ bw = New(stream)
    /\ call = [op |-> "new", n |-> 0, res |-> NoRes, reads |-> <<>>]
    /\ solo = NoRes /\ refRes = NoRes
    /\ hist = HistInit /\ prev = HistInit

\* main.rs:123-131: main before Opts::from_args().
MainNew ==
    /\ cli = DefaultCli /\ inputs = <<>>
    /\ mphase = "start" /\ merged = Merged(<<>>, "None", <<>>)

\* A reader over data with its cursor at pos, nothing of util called yet.
Reader(data, pos) ==
    /\ rd = [data |-> data, pos |-> pos]
    /\ ucall = [op |-> "none", res |-> NoRes, before |-> pos]

Init ==
    /\ \E st \in Streams : SeekerNew(st)
    /\ ConcatNew /\ MainNew /\ Reader(<<>>, 0)

DoSeek ==
    /\ Alive
    /\ \E keep \in KeepChoices(Seek(stream, sk, SeekByte, TRUE).res) :
         LET o == Seek(stream, sk, SeekByte, keep)
             f == Seek(stream, fw, SeekByte, keep)
             r == Seek(stream, ref, SeekByte, keep)
         IN  /\ sk' = o.s /\ fw' = f.s /\ ref' = r.s /\ bw' = bw
             /\ call' = Call("seek", 1, o)
             /\ solo' = f.res /\ refRes' = r.res
             /\ prev' = hist /\ hist' = AfterForward(hist, 1, o.res)
    /\ UNCHANGED <<stream, concatVars, mergeVars, utilVars>>

DoSeekBack ==
    /\ Alive
    /\ \E keep \in KeepChoices(SeekBack(stream, sk, SeekByte, TRUE).res) :
         LET o == SeekBack(stream, sk, SeekByte, keep)
             b == SeekBack(stream, bw, SeekByte, keep)
             r == SeekBack(stream, ref, SeekByte, keep)
         IN  /\ sk' = o.s /\ bw' = b.s /\ ref' = r.s /\ fw' = fw
             /\ call' = Call("seek_back", 1, o)
             /\ solo' = b.res /\ refRes' = r.res
             /\ prev' = hist /\ hist' = AfterBackward(hist, 1, o.res)
    /\ UNCHANGED <<stream, concatVars, mergeVars, utilVars>>

DoSeekNth ==
    /\ Alive
    /\ \E n \in NthChoices :
       \E checks \in ChecksChoices(n) :
       \E keep \in KeepChoices(SeekNth(stream, sk, SeekByte, n, TRUE, checks).res) :
         LET o == SeekNth(stream, sk, SeekByte, n, keep, checks)
             f == SeekNth(stream, fw, SeekByte, n, keep, checks)
             r == SeekNth(stream, ref, SeekByte, n, keep, checks)
         IN  /\ sk' = o.s /\ fw' = f.s /\ ref' = r.s /\ bw' = bw
             /\ call' = Call("seek_nth", n, o)
             /\ solo' = f.res /\ refRes' = r.res
             /\ prev' = hist /\ hist' = AfterForward(hist, n, o.res)
    /\ UNCHANGED <<stream, concatVars, mergeVars, utilVars>>

DoSeekNthBack ==
    /\ Alive
    /\ \E n \in NthChoices :
       \E checks \in ChecksChoices(n) :
       \E keep \in KeepChoices(SeekNthBack(stream, sk, SeekByte, n, TRUE, checks).res) :
         LET o == SeekNthBack(stream, sk, SeekByte, n, keep, checks)
             b == SeekNthBack(stream, bw, SeekByte, n, keep, checks)
             r == SeekNthBack(stream, ref, SeekByte, n, keep, checks)
         IN  /\ sk' = o.s /\ bw' = b.s /\ ref' = r.s /\ fw' = fw
             /\ call' = Call("seek_nth_back", n, o)
             /\ solo' = b.res /\ refRes' = r.res
             /\ prev' = hist /\ hist' = AfterBackward(hist, n, o.res)
    /\ UNCHANGED <<stream, concatVars, mergeVars, utilVars>>

DoReset ==
    /\ Alive
    /\ sk' = Reset(sk)
    /\ ref' = New(stream) /\ fw' = New(stream) /\ bw' = New(stream)
    /\ call' = [op |-> "reset", n |-> 0, res |-> NoRes, reads |-> <<>>]
    /\ solo' = NoRes /\ refRes' = NoRes
    /\ prev' = hist
    /\ hist' = [HistInit EXCEPT !.phase = "reset", !.dirty = sk # New(stream)]
    /\ UNCHANGED <<stream, concatVars, mergeVars, utilVars>>

Next == DoSeek \/ DoSeekBack \/ DoSeekNth \/ DoSeekNthBack \/ DoReset

\* The ByteSeeker on its own, over every stream up to MaxStream bytes.
Spec == Init /\ [][Next]_vars

\* The seeker over a stream whose reads may fail.  Only the seeker and its
\* last call are followed here; the shadow seekers and the history, which the
\* device's failures do not concern, stay as Init left them.
Returned(op, n, o) ==
    /\ sk' = o.s /\ call' = Call(op, n, o)
    /\ UNCHANGED <<stream, ref, fw, bw, solo, refRes, hist, prev>>
    /\ UNCHANGED <<concatVars, mergeVars, utilVars>>

StepSeek ==
    /\ Alive
    /\ \E keep \in KeepChoices(Seek(stream, sk, SeekByte, TRUE).res) :
         Returned("seek", 1, Seek(stream, sk, SeekByte, keep))

StepSeekBack ==
    /\ Alive
    /\ \E keep \in KeepChoices(SeekBack(stream, sk, SeekByte, TRUE).res) :
         Returned("seek_back", 1, SeekBack(stream, sk, SeekByte, keep))

StepSeekNth ==
    /\ Alive
    /\ \E n \in NthChoices :
       \E checks \in ChecksChoices(n) :
       \E keep \in KeepChoices(SeekNth(stream, sk, SeekByte, n, TRUE, checks).res) :
         Returned("seek_nth", n, SeekNth(stream, sk, SeekByte, n, keep, checks))

StepSeekNthBack ==
    /\ Alive
    /\ \E n \in NthChoices :
       \E checks \in ChecksChoices(n) :
       \E keep \in KeepChoices(SeekNthBack(stream, sk, SeekByte, n, TRUE, checks).res) :
         Returned("seek_nth_back", n,
                  SeekNthBack(stream, sk, SeekByte, n, keep, checks))

StepReset ==
    /\ Alive
    /\ sk' = Reset(sk)
    /\ call' = [op |-> "reset", n |-> 0, res |-> NoRes, reads |-> <<>>]
    /\ UNCHANGED <<stream, ref, fw, bw, solo, refRes, hist, prev>>
    /\ UNCHANGED <<concatVars, mergeVars, utilVars>>

\* A call of seek whose first read the device fails; a read into an empty
\* buffer asks the device for nothing.
DoSeekFault ==
    /\ Alive /\ ~sk.done /\ sk.len # 0
    /\ (sk.len = 1 \/ sk.oneleft \/ (sk.len - sk.lpos > 0 /\ sk.buflen > 0))
    /\ \E keep \in BOOLEAN :
         Returned("seek", 1, SeekFailing(stream, sk, SeekByte, keep))

\* A call of seek_back whose first read the device fails.
DoSeekBackFault ==
    /\ Alive /\ ~sk.done /\ sk.len # 0
    /\ (sk.len = 1 \/ sk.oneleft \/ sk.buflen > 0)
    /\ \E keep \in BOOLEAN :
         Returned("seek_back", 1, SeekBackFailing(stream, sk, SeekByte, keep))

NextFault ==
    \/ StepSeek \/ StepSeekBack \/ StepSeekNth \/ StepSeekNthBack \/ StepReset
    \/ DoSeekFault \/ DoSeekBackFault

SpecFault == Init /\ [][NextFault]_vars

\* ------------------------------------------------------ the Concat builder
\* The builder methods take &mut self and are callable before and after open;
\* write takes self, so nothing follows it.
Building == phase \in {"new", "opened"}

\* concat.rs:122-125
DoNewline ==
    /\ Building
    /\ \E b \in BOOLEAN : opts' = [opts EXCEPT !.newline = b]
    /\ UNCHANGED <<view, paths, phase, out, seekerVars, mergeVars, utilVars>>

\* concat.rs:142-145
DoSkipStart ==
    /\ Building
    /\ \E n \in 0..MaxSkip : opts' = SkipStart(opts, n)
    /\ UNCHANGED <<view, paths, phase, out, seekerVars, mergeVars, utilVars>>

\* concat.rs:162-165
DoSkipEnd ==
    /\ Building
    /\ \E n \in 0..MaxSkip : opts' = [opts EXCEPT !.skip_end = n]
    /\ UNCHANGED <<view, paths, phase, out, seekerVars, mergeVars, utilVars>>

\* concat.rs:190-194
DoHeader ==
    /\ Building
    /\ \E b \in BOOLEAN : opts' = Header(opts, b)
    /\ UNCHANGED <<view, paths, phase, out, seekerVars, mergeVars, utilVars>>

\* concat.rs:210-213
DoPadWith ==
    /\ Building
    /\ \E p \in Paddings :
         opts' = [opts EXCEPT !.padding = [some |-> TRUE, bytes |-> p]]
    /\ UNCHANGED <<view, paths, phase, out, seekerVars, mergeVars, utilVars>>

\* concat.rs:229-232
DoUseCrlf ==
    /\ Building
    /\ \E b \in BOOLEAN : opts' = [opts EXCEPT !.crlf = b]
    /\ UNCHANGED <<view, paths, phase, out, seekerVars, mergeVars, utilVars>>

\* concat.rs:95-105.  open is taken once per run: a second open only replaces
\* the paths and recomputes view from the options, which is the state a first
\* open with those options and paths gives.
DoOpen ==
    /\ phase = "new"
    /\ \E ps \in PathLists : paths' = ps
    /\ view' = ViewOf(opts)
    /\ phase' = "opened"
    /\ UNCHANGED <<opts, out, seekerVars, mergeVars, utilVars>>

\* concat.rs:274-305
DoWrite ==
    /\ Building
    /\ \E keep \in BOOLEAN, checks \in BOOLEAN :
         out' = Write(paths, opts, view, keep, checks)
    /\ phase' = "written"
    /\ UNCHANGED <<opts, view, paths, seekerVars, mergeVars, utilVars>>

NextConcat ==
    \/ DoNewline \/ DoSkipStart \/ DoSkipEnd \/ DoHeader \/ DoPadWith
    \/ DoUseCrlf \/ DoOpen \/ DoWrite

InitConcat == SeekerNew(<<>>) /\ ConcatNew /\ MainNew /\ Reader(<<>>, 0)

\* The Concat builder and writer, over every list of up to MaxFiles files.
SpecConcat == InitConcat /\ [][NextConcat]_vars

\* The builder on its own: the option setters of Concat, before any open.
NextBuilder ==
    \/ DoNewline \/ DoSkipStart \/ DoSkipEnd \/ DoHeader \/ DoPadWith
    \/ DoUseCrlf

SpecBuilder == InitConcat /\ [][NextBuilder]_vars

\* ------------------------------------------------------- util on a reader
\* util.rs:29-38 called on rd.
DoGetLastByte ==
    /\ ucall' = [op |-> "get_last_byte",
                 res |-> [kind |-> GetLastByte(rd.data, rd.pos).kind,
                          val |-> GetLastByte(rd.data, rd.pos).val],
                 before |-> rd.pos]
    /\ rd' = [rd EXCEPT !.pos = GetLastByte(rd.data, rd.pos).pos]
    /\ UNCHANGED <<seekerVars, concatVars, mergeVars>>

\* util.rs:72-84 called on rd; the cursor goes where its get_last_byte
\* leaves it.
DoEndsWithNewline ==
    /\ ucall' = [op |-> "ends_with_newline", res |-> EndsWithNewline(rd.data),
                 before |-> rd.pos]
    /\ rd' = [rd EXCEPT !.pos = GetLastByte(rd.data, rd.pos).pos]
    /\ UNCHANGED <<seekerVars, concatVars, mergeVars>>

\* Seek::seek(SeekFrom::Start(p)) by the owner of the reader, between calls.
DoSeekStart ==
    /\ \E p \in 0..Len(rd.data) : rd' = [rd EXCEPT !.pos = p]
    /\ UNCHANGED <<ucall, seekerVars, concatVars, mergeVars>>

NextUtil == DoGetLastByte \/ DoEndsWithNewline \/ DoSeekStart

\* The functions of util over every reader of up to MaxStream bytes and every
\* position of its cursor.
InitUtil ==
    /\ SeekerNew(<<>>) /\ ConcatNew /\ MainNew
    /\ \E data \in Streams : \E pos \in 0..Len(data) : Reader(data, pos)

SpecUtil == InitUtil /\ [][NextUtil]_vars

\* ------------------------------------------------------------------ main
\* main.rs:123-131: main parses the command line and runs the merge.
DoMain ==
    /\ mphase = "start"
    /\ \E o \in CliOpts, files \in InputLists :
         /\ cli' = o /\ inputs' = files
         /\ merged' = Run(o, files)
    /\ mphase' = "done"
    /\ UNCHANGED <<seekerVars, concatVars, utilVars>>

NextMain == DoMain

\* The command line tool, over every option set and input list.
SpecMain == InitConcat /\ [][NextMain]_vars

\* ------------------------------------------------------------------ claims
NumNL == NumOcc(stream, SeekByte)
Failed(res) == res.kind \in {"ByteNotFound", "Io"}

\* C2: on a freshly created seeker over a stream with k occurrences of the
\* byte, seek_nth(b, j) returns the offset of the j-th occurrence from the
\* start for 1 <= j <= k, and fails for j = k + 1.
C2_SeekNthFindsJth ==
    (call.op = "seek_nth" /\ prev.phase = "fresh" /\ call.n >= 1) =>
        IF call.n <= NumNL
        THEN call.res = OkR(NthFromHead(stream, SeekByte, call.n))
        ELSE Failed(call.res)

\* A second occurrence found beyond the first chunk.
C2_Witness ==
    /\ call.op = "seek_nth" /\ prev.phase = "fresh" /\ call.n = 2
    /\ call.res.kind = "Ok" /\ call.res.val >= DEFUALT_CHUNK_SIZE
    /\ NumNL >= 3

\* C3: on a freshly created seeker over a stream with k occurrences,
\* seek_nth_back(b, j) for 1 <= j <= k returns the offset from the start of the
\* j-th occurrence from the end, the value a fresh seeker's seek_nth(b, k-j+1)
\* returns, and the (k+1)-th backward request fails.
C3_SeekNthBackMirrors ==
    (call.op = "seek_nth_back" /\ prev.phase = "fresh" /\ call.n >= 1) =>
        IF call.n <= NumNL
        THEN /\ call.res = OkR(NthFromTail(stream, SeekByte, call.n))
             /\ call.res = SeekNth(stream, New(stream), SeekByte,
                                   NumNL - call.n + 1, FALSE, TRUE).res
        ELSE Failed(call.res)

\* The second occurrence from the end, found in an earlier chunk than the last.
C3_Witness ==
    /\ call.op = "seek_nth_back" /\ prev.phase = "fresh" /\ call.n = 2
    /\ call.res.kind = "Ok" /\ call.res.val < Len(stream) - DEFUALT_CHUNK_SIZE
    /\ NumNL >= 3

\* C4: the forward and the backward walk of one seeker are independent: every
\* seek call returns what it returns when the backward calls are left out, and
\* every seek_back call what it returns when the forward calls are left out.
C4_WalksIndependent ==
    call.op \in {"seek", "seek_back"} => call.res = solo

\* C5: after reset(), whatever was called before it, a sequence of seek /
\* seek_back calls yields the results it yields on a freshly created seeker
\* over the same stream: every call on sk returns what the same call returns
\* on ref, the seeker created fresh at the last reset and given the calls made
\* since.
C5_ResetRestoresFresh ==
    call.op \in SeekOps => (call.res = refRes /\ sk = ref)

\* The first call after the reset of a seeker that had run into exhaustion
\* finds an occurrence again.
C5_Witness ==
    /\ call.op \in SeekOps /\ prev.phase = "reset" /\ prev.dirty
    /\ call.res.kind = "Ok" /\ call.res.val > 0

\* C6: a call that fails because the unsearched region holds fewer occurrences
\* than it asks for fails with ByteNotFound, not with Io.
C6_NotFoundIsByteNotFound ==
    /\ (call.op \in FwdOps /\ call.n >= 1 /\ Failed(call.res)
            /\ prev.fwdN + call.n > NumNL)
        => call.res.kind = "ByteNotFound"
    /\ (call.op \in BackOps /\ call.n >= 1 /\ Failed(call.res)
            /\ prev.backN + call.n > NumNL)
        => call.res.kind = "ByteNotFound"

\* C7: once a call in one direction has failed for lack of a further
\* occurrence, every later call in that direction before a reset fails too, and
\* issues no read on the stream.
C7_ExhaustionSticky ==
    /\ (prev.fwdFailed /\ call.op \in FwdOps /\ call.n >= 1)
        => (Failed(call.res) /\ call.reads = <<>>)
    /\ (prev.backFailed /\ call.op \in BackOps /\ call.n >= 1)
        => (Failed(call.res) /\ call.reads = <<>>)

\* C1: merging N >= 1 files with no skip, padding, header or newline option
\* writes exactly the files' bytes in input order, nothing added or removed.
C1_PlainMergeIsConcatenation ==
    (/\ phase = "written" /\ Len(paths) >= 1
     /\ opts.skip_start = 0 /\ opts.skip_end = 0
     /\ ~opts.header /\ ~opts.newline /\ ~opts.padding.some)
        => (out.kind = "Ok" /\ out.sink = Flatten(paths))

\* C8: with a head line-skip of n and no tail skip, a file with at least n
\* '\n' bytes is emitted from the byte after its n-th '\n' to its end.
C8_HeadSkipEmitsRest ==
    (phase = "written" /\ view /\ opts.skip_start >= 1 /\ opts.skip_end = 0) =>
        \A i \in 1..Len(out.parts) :
            NumOcc(paths[i], NL) >= opts.skip_start =>
                /\ out.parts[i].kind = "Ok"
                /\ out.parts[i].content = AfterNthNL(paths[i], opts.skip_start)

\* C9: with a tail line-skip of n and no head skip, a file is emitted without
\* its last n lines, the lines before them unchanged.
C9_TailSkipDropsLastLines ==
    (phase = "written" /\ view /\ opts.skip_end >= 1 /\ opts.skip_start = 0) =>
        \A i \in 1..Len(out.parts) :
            NumLines(paths[i]) >= opts.skip_end =>
                /\ out.parts[i].kind = "Ok"
                /\ out.parts[i].content = DropLastLines(paths[i], opts.skip_end)

\* C10: for a file of exactly k lines, a head line-skip of k and a tail
\* line-skip of k each emit nothing for the file without an error, and a head
\* line-skip of k + 1 fails with the insufficient-content error (InvalidSkip).
C10_SkipAllLines ==
    (phase = "written" /\ view) =>
        \A i \in 1..Len(out.parts) :
            LET k == NumLines(paths[i])
                p == out.parts[i]
            IN  k >= 1 =>
                /\ (opts.skip_start = k /\ opts.skip_end = 0)
                     => (p.kind = "Ok" /\ p.content = <<>>)
                /\ (opts.skip_end = k /\ opts.skip_start = 0)
                     => (p.kind = "Ok" /\ p.content = <<>>)
                /\ (opts.skip_start = k + 1 /\ opts.skip_end = 0)
                     => p.kind = "InvalidSkip"

\* The bytes one file should give under forced newline and no skip: the file,
\* and the terminator unless the file already ends in '\n'.
Normalised(file, o) ==
    IF EndsWithNewline(file).val THEN file ELSE file \o NewlineBytes(o)

RECURSIVE FlattenNormalised(_, _)
FlattenNormalised(files, o) ==
    IF Len(files) = 0 THEN <<>>
    ELSE Normalised(Head(files), o) \o FlattenNormalised(Tail(files), o)

\* C13: with padding and N >= 1 files the pad bytes are written after each of
\* the files 1..N-1 only, so a successful write holds exactly N-1 copies of the
\* padding (the files hold no pad byte themselves).
C13_PaddingBetweenOnly ==
    (phase = "written" /\ out.kind = "Ok" /\ opts.padding.some
        /\ Len(paths) >= 1)
        => NumOcc(out.sink, PAD) = Len(paths) - 1

\* C16: with forced newline and no skip option the output is, in file order,
\* each file's full content followed by the terminator iff the content does
\* not end in '\n', and nothing after that.
C16_ForcedNewlinePerFile ==
    (/\ phase = "written" /\ Len(paths) >= 1
     /\ opts.newline /\ opts.skip_start = 0 /\ opts.skip_end = 0
     /\ ~opts.header /\ ~opts.padding.some)
        => (out.kind = "Ok" /\ out.sink = FlattenNormalised(paths, opts))

\* C17: an appended terminator is "\r\n" under the CRLF style and "\n"
\* otherwise, and without forced newline the style has no effect on the
\* output: the write with the other style gives the same bytes.
C17_StyleOnlyShapesTerminators ==
    (phase = "written" /\ opts.skip_start = 0 /\ opts.skip_end = 0) =>
        /\ \A i \in 1..Len(out.parts) :
               out.parts[i].term \in {<<>>, IF opts.crlf THEN <<CR, NL>> ELSE <<NL>>}
        /\ ~opts.newline =>
               out.sink = Write(paths, [opts EXCEPT !.crlf = ~opts.crlf],
                                view, TRUE, TRUE).sink

\* C20: a merge that fails because a file has fewer lines than the skip count
\* fails with InvalidSkip; ByteNotFound never comes out of Concat::write.
C20_NotFoundNeverRaw ==
    phase = "written" =>
        /\ out.kind # "ByteNotFound"
        /\ \A i \in 1..Len(out.parts) :
               (view /\ out.parts[i].kind # "Ok"
                     /\ NumLines(paths[i]) < opts.skip_end)
                   => out.parts[i].kind = "InvalidSkip"

\* ------------------------------------------------- claims about the tool
\* A file without its first n lines.
DropFirstLines(file, n) ==
    IF n = 0 THEN file
    ELSE IF n <= NumOcc(file, NL) THEN AfterNthNL(file, n)
    ELSE <<>>

\* How many paddings a sink holds: no file holds the padding's second byte.
NumPads(sink) == NumOcc(sink, PaddingText[2])

Ran == mphase = "done"
NoHead == ~cli.skip_head.some /\ ~cli.skip_head_once.some /\ ~cli.headonce
NoTail == ~cli.skip_tail.some /\ ~cli.skip_tail_once.some /\ ~cli.tailonce
HeadOnceCount ==
    IF cli.headonce THEN 1
    ELSE IF cli.skip_head_once.some THEN cli.skip_head_once.n ELSE 0
TailOnceCount ==
    IF cli.tailonce THEN 1
    ELSE IF cli.skip_tail_once.some THEN cli.skip_tail_once.n ELSE 0

\* C11: with a head skip of the once variant and count n, the first file is
\* emitted untouched and every other file, the last included, without exactly
\* its first n lines.
C11_HeadOnceSparesFirst ==
    (Ran /\ cli.skip_mode = "lines" /\ NoTail
         /\ (cli.headonce \/ cli.skip_head_once.some)) =>
        \A i \in 1..Len(merged.parts) :
            /\ i = 1 => (merged.parts[i].kind = "Ok"
                         /\ merged.parts[i].content = inputs[i])
            /\ (i > 1 /\ NumLines(inputs[i]) >= HeadOnceCount) =>
                   /\ merged.parts[i].kind = "Ok"
                   /\ merged.parts[i].content
                          = DropFirstLines(inputs[i], HeadOnceCount)

\* The last of several files has lost a first line and kept a later one, the
\* first file is whole.
C11_Witness ==
    /\ Ran /\ cli.skip_mode = "lines" /\ NoTail /\ cli.skip_head_once.some
    /\ merged.kind = "Ok" /\ Len(inputs) >= 2
    /\ merged.parts[1].content = inputs[1] /\ NumLines(inputs[1]) >= 1
    /\ merged.parts[Len(inputs)].content # <<>>
    /\ merged.parts[Len(inputs)].content # inputs[Len(inputs)]

\* C12: with a tail skip of the once variant and count n, the last file is
\* emitted untouched and every other file, the first included, without exactly
\* its last n lines.
C12_TailOnceSparesLast ==
    (Ran /\ cli.skip_mode = "lines" /\ NoHead
         /\ (cli.tailonce \/ cli.skip_tail_once.some)) =>
        \A i \in 1..Len(merged.parts) :
            /\ i = Len(inputs) => (merged.parts[i].kind = "Ok"
                                   /\ merged.parts[i].content = inputs[i])
            /\ (i < Len(inputs) /\ NumLines(inputs[i]) >= TailOnceCount) =>
                   /\ merged.parts[i].kind = "Ok"
                   /\ merged.parts[i].content
                          = (IF TailOnceCount = 0 THEN inputs[i]
                             ELSE DropLastLines(inputs[i], TailOnceCount))

\* The first of several files has lost a last line and kept an earlier one,
\* the last file is whole.
C12_Witness ==
    /\ Ran /\ cli.skip_mode = "lines" /\ NoHead /\ cli.skip_tail_once.some
    /\ merged.kind = "Ok" /\ Len(inputs) >= 2
    /\ merged.parts[Len(inputs)].content = inputs[Len(inputs)]
    /\ NumLines(inputs[Len(inputs)]) >= 1
    /\ merged.parts[1].content # <<>>
    /\ merged.parts[1].content # inputs[1]

\* C14: with Before padding the pad bytes appear once, right before the first
\* file's content; with After padding once, right after the last file's
\* content; in neither mode between files.
C14_BeforeAndAfterPadOnce ==
    (Ran /\ merged.kind = "Ok" /\ cli.padding.some) =>
        LET n == Len(inputs)
            last == merged.parts[n]
            tail == last.content \o last.term \o PaddingText
        IN  /\ cli.pad_mode = "beforestart" =>
                /\ NumPads(merged.sink) = 1
                /\ SubSeq(merged.sink, 1,
                          Len(PaddingText) + Len(merged.parts[1].content))
                       = PaddingText \o merged.parts[1].content
            /\ cli.pad_mode = "afterend" =>
                /\ NumPads(merged.sink) = 1
                /\ SubSeq(merged.sink, Len(merged.sink) - Len(tail) + 1,
                          Len(merged.sink)) = tail

\* Several non-empty files merged with the padding before the first.
C14_Witness ==
    /\ Ran /\ merged.kind = "Ok" /\ cli.padding.some
    /\ cli.pad_mode = "beforestart" /\ Len(inputs) >= 2
    /\ \A i \in 1..Len(inputs) : merged.parts[i].content # <<>>

\* C15: with the padding in all positions, N files give the padding N + 1
\* times: before file 1, after each of the files 1..N-1, and once after file N.
C15_CustomPadsEverySlot ==
    (Ran /\ merged.kind = "Ok" /\ cli.padding.some /\ cli.pad_mode = "all") =>
        /\ NumPads(merged.sink) = Len(inputs) + 1
        /\ merged.parts[1].before = PaddingText
        /\ \A i \in 1..Len(inputs) :
               /\ merged.parts[i].after = PaddingText
               /\ i > 1 => merged.parts[i].before = <<>>

\* Several files merged with the padding in all positions.
C15_Witness ==
    /\ Ran /\ merged.kind = "Ok" /\ cli.padding.some /\ cli.pad_mode = "all"
    /\ Len(inputs) >= 2 /\ NumPads(merged.sink) = Len(inputs) + 1

\* The command line of args_mixed_works_as_expected, tests/cli.rs:699-722.
MixedArgs ==
    [DefaultCli EXCEPT !.newline = TRUE, !.skip_head = SomeV(1),
                       !.skip_tail_once = SomeV(1),
                       !.padding = SomeBytes(PaddingText), !.pad_mode = "all"]

\* " padding 121 122\n padding 221 222\n padding 332 322\n331 332\n padding "
MixedOutput ==
    PaddingText \o <<49, 50, 49, 32, 49, 50, 50, 10>>
    \o PaddingText \o <<50, 50, 49, 32, 50, 50, 50, 10>>
    \o PaddingText \o <<51, 51, 50, 32, 51, 50, 50, 10, 51, 51, 49, 32, 51, 51, 50, 10>>
    \o PaddingText

\* C18: the three files of the tests, head line-skip 1, tail line-skip-once 1,
\* forced LF newline and " padding " in all positions give exactly
\* MixedOutput.
C18_ConcreteScenario ==
    (Ran /\ cli = MixedArgs /\ inputs = TestingFiles) =>
        (merged.kind = "Ok" /\ merged.sink = MixedOutput)

\* That run has happened.
C18_Witness ==
    Ran /\ cli = MixedArgs /\ inputs = TestingFiles /\ merged.kind = "Ok"

\* C19: in byte mode a head (tail) skip of n bytes on a file of length L
\* removes exactly the first (last) n bytes when n <= L, and fails the run with
\* the insufficient-content error when n > L.
C19_ByteSkipExactOrFails ==
    (Ran /\ cli.skip_mode = "bytes") =>
        \A i \in 1..Len(merged.parts) :
            LET file == inputs[i]
                L == Len(file)
                p == merged.parts[i]
            IN  /\ (cli.skip_head.some /\ NoTail) =>
                    IF cli.skip_head.n <= L
                    THEN p.kind = "Ok"
                         /\ p.content = SubSeq(file, cli.skip_head.n + 1, L)
                    ELSE p.kind = "InsufficientContent"
                           /\ merged.kind = "InsufficientContent"
                /\ (cli.skip_tail.some /\ NoHead) =>
                    IF cli.skip_tail.n <= L
                    THEN p.kind = "Ok"
                         /\ p.content = SubSeq(file, 1, L - cli.skip_tail.n)
                    ELSE p.kind = "InsufficientContent"
                           /\ merged.kind = "InsufficientContent"

\* A byte skip that takes a whole non-empty file, without error.
C19_Witness ==
    /\ Ran /\ cli.skip_mode = "bytes" /\ cli.skip_head.some /\ NoTail
    /\ merged.kind = "Ok" /\ Len(inputs) >= 1
    /\ cli.skip_head.n = Len(inputs[1]) /\ Len(inputs[1]) >= 1
    /\ merged.parts[1].content = <<>>

\* ---------------------------------------------- more claims about Concat
\* C21: a write with no file at all ends with the error NothingPassed, whatever
\* the options are, with nothing in the sink and without a panic.
C21_EmptyInputIsNothingPassed ==
    (phase = "written" /\ Len(paths) = 0)
        => (out.kind = "NothingPassed" /\ out.sink = <<>>)

\* What the files write got to have put in the sink, file by file: content,
\* terminator, and the padding after a file that was written without error.
RECURSIVE PartsBytes(_, _, _)
PartsBytes(parts, i, o) ==
    IF i > Len(parts) THEN <<>>
    ELSE parts[i].content \o parts[i].term
         \o (IF parts[i].kind = "Ok" /\ o.padding.some THEN o.padding.bytes ELSE <<>>)
         \o PartsBytes(parts, i + 1, o)

\* C22: when file i fails, write returns that error at once: file i is the
\* last file write_contents was called on, and the sink holds the header and
\* the bytes of the files 1..i-1 and nothing written after the failure.
C22_FailureStopsTheRun ==
    (phase = "written" /\ Len(out.parts) >= 1) =>
        LET n == Len(out.parts)
        IN  /\ n <= Len(paths)
            /\ \A i \in 1..n : out.parts[i].kind # "Ok" => i = n
            /\ out.parts[n].kind # "Ok" =>
                   /\ out.kind = out.parts[n].kind
                   /\ out.sink = (IF opts.header THEN GetHeader(paths).bytes ELSE <<>>)
                                 \o PartsBytes(out.parts, 1, opts)

\* The first of several files failed with an error value, and a file with
\* content came after it.
C22_Witness ==
    /\ phase = "written" /\ Len(paths) >= 2 /\ paths[2] # <<>>
    /\ Len(out.parts) = 1
    /\ out.parts[1].kind \in {"Io", "ByteNotFound"}
    /\ out.kind = out.parts[1].kind

\* The first line of a file that has a '\n', the '\n' included.
FirstLine(file) == SubSeq(file, 1, NthFromHead(file, NL, 1) + 1)

\* The files one after the other, each without its first line.
RECURSIVE FlattenBodies(_)
FlattenBodies(files) ==
    IF files = <<>> THEN <<>>
    ELSE AfterNthNL(Head(files), 1) \o FlattenBodies(Tail(files))

\* C23: with header set (and nothing else), and a '\n'-terminated first line in
\* every file, the output is the first line of the first file once, at the very
\* beginning, and then every file without its first line, in file order.
C23_HeaderOnceThenBodies ==
    (/\ phase = "written" /\ view /\ Len(paths) >= 1
     /\ opts.header /\ opts.skip_start = 1 /\ opts.skip_end = 0
     /\ ~opts.newline /\ ~opts.padding.some
     /\ \A i \in 1..Len(paths) : NumOcc(paths[i], NL) >= 1
     /\ EndsWithNewline(paths[Len(paths)]).val)
        => (/\ out.kind = "Ok"
            /\ out.sink = FirstLine(paths[1]) \o FlattenBodies(paths))

\* C24: on every builder state header(true) gives the options that
\* header(true).skip_start(1) gives; skip_start(n) after header(true) leaves
\* skip_start = n and header true; and header changes no option other than
\* header and skip_start.
C24_HeaderImpliesSkipOne ==
    Building =>
        /\ Header(opts, TRUE) = SkipStart(Header(opts, TRUE), 1)
        /\ \A n \in 0..MaxSkip :
               SkipStart(Header(opts, TRUE), n)
                   = [opts EXCEPT !.header = TRUE, !.skip_start = n]
        /\ \A h \in BOOLEAN :
               [Header(opts, h) EXCEPT !.header = opts.header,
                                       !.skip_start = opts.skip_start] = opts

\* A builder on which header(true) and then skip_start(2) have been called,
\* with other options set besides.
C24_Witness ==
    /\ Building /\ opts.header /\ opts.skip_start = 2
    /\ opts.skip_end = 2 /\ opts.newline /\ opts.padding.some

\* --------------------------------------------------------- claims about util
\* C25: get_last_byte leaves the cursor of its input where it was before the
\* call, whether it returns a byte or an error.
C25_LastByteKeepsCursor ==
    ucall.op = "get_last_byte" => rd.pos = ucall.before

\* C26: ends_with_newline returns Ok(true) exactly when the file is not empty
\* and its last byte is '\n', Ok(false) otherwise: for an empty file Ok(false),
\* never SeekNegative.
C26_EndsWithNewlineIsLastByte ==
    ucall.op = "ends_with_newline" =>
        /\ ucall.res.kind = "Ok"
        /\ ucall.res.val
               = (Len(rd.data) > 0 /\ rd.data[Len(rd.data)] = NL)

\* The call on an empty file has returned Ok(false).
C26_Witness ==
    /\ ucall.op = "ends_with_newline" /\ rd.data = <<>>
    /\ ucall.res = [kind |-> "Ok", val |-> FALSE]

\* ------------------------------------------- more claims about the tool
\* The command line without its head (tail) skip options.
WithoutHead(o) ==
    [o EXCEPT !.skip_head = NoneV, !.skip_head_once = NoneV, !.headonce = FALSE]
WithoutTail(o) ==
    [o EXCEPT !.skip_tail = NoneV, !.skip_tail_once = NoneV, !.tailonce = FALSE]

\* The head (tail) skip option given is one with count 0.
HeadOfZero ==
    /\ ~cli.headonce
    /\ cli.skip_head = SomeV(0) \/ cli.skip_head_once = SomeV(0)
TailOfZero ==
    /\ ~cli.tailonce
    /\ cli.skip_tail = SomeV(0) \/ cli.skip_tail_once = SomeV(0)

\* C27: a skip option with count 0, head or tail, plain or once, in line or in
\* byte mode, changes nothing: the run gives what the run without that option
\* gives, and with no other skip every file is emitted in full.
C27_ZeroSkipIsIdentity ==
    Ran =>
        /\ HeadOfZero => merged = Run(WithoutHead(cli), inputs)
        /\ TailOfZero => merged = Run(WithoutTail(cli), inputs)
        /\ ((HeadOfZero /\ (TailOfZero \/ NoTail)) \/ (TailOfZero /\ NoHead)) =>
               /\ Len(merged.parts) = Len(inputs)
               /\ \A i \in 1..Len(inputs) :
                      /\ merged.parts[i].kind = "Ok"
                      /\ merged.parts[i].content = inputs[i]

\* Several files with lines merged under a head skip-once of 0 lines.
C27_Witness ==
    /\ Ran /\ cli.skip_mode = "lines" /\ cli.skip_head_once = SomeV(0) /\ NoTail
    /\ merged.kind = "Ok" /\ Len(inputs) >= 2
    /\ \A i \in 1..Len(inputs) :
           NumLines(inputs[i]) >= 1 /\ merged.parts[i].content = inputs[i]

\* ---------------------------------------- more claims about write_contents
\* content is the bytes of file from offset a up to offset b, for some
\* 0 <= a <= b <= Len(file).
IsRangeOf(content, file) ==
    \E a \in 0..Len(file) : \E b \in a..Len(file) :
        content = SubSeq(file, a + 1, b)

\* C28: for every file and every pair of head and tail counts the file has
\* lines for, the bytes emitted are a range start..end of the file with
\* 0 <= start <= end <= length, found without error or arithmetic underflow;
\* where the two skips meet or cross, the range is empty.
C28_RangeOrderedOrEmpty ==
    (phase = "written" /\ view /\ ~opts.header
         /\ (opts.skip_start > 0 \/ opts.skip_end > 0)) =>
        \A i \in 1..Len(out.parts) :
            (opts.skip_start <= NumLines(paths[i])
                 /\ opts.skip_end <= NumLines(paths[i])) =>
                /\ out.parts[i].kind = "Ok"
                /\ IsRangeOf(out.parts[i].content, paths[i])
                /\ opts.skip_start + opts.skip_end >= NumLines(paths[i])
                       => out.parts[i].content = <<>>

\* ------------------------------------------- more claims about ByteSeeker
\* C29: over every call that is not a reset the forward cursor does not
\* decrease and the backward cursor does not increase, with
\* 0 <= lpos <= len and 0 <= rpos <= max(len - 1, 0); a seek that returns p
\* leaves lpos = p + 1, a seek_back that returns p > 0 leaves rpos = p - 1.
C29_CursorsMonotone ==
    [][call'.op \in SeekOps =>
          /\ sk'.lpos >= sk.lpos
          /\ sk'.rpos <= sk.rpos
          /\ 0 <= sk'.lpos /\ sk'.lpos <= sk'.len
          /\ 0 <= sk'.rpos
          /\ sk'.rpos <= (IF sk'.len = 0 THEN 0 ELSE sk'.len - 1)
          /\ (call'.op = "seek" /\ call'.res.kind = "Ok")
                 => sk'.lpos = call'.res.val + 1
          /\ (call'.op = "seek_back" /\ call'.res.kind = "Ok"
                  /\ call'.res.val > 0)
                 => sk'.rpos = call'.res.val - 1]_vars

\* The bytes the forward (backward) walk has not searched yet, h being the
\* calls so far: those after (before) the last occurrence it has returned, none
\* once a call in that direction has failed.
FwdLeft(h) ==
    IF h.fwdOut THEN 0
    ELSE IF h.fwdN = 0 THEN Len(stream)
    ELSE Len(stream) - NthFromHead(stream, SeekByte, h.fwdN) - 1
BackLeft(h) ==
    IF h.backOut THEN 0
    ELSE IF h.backN = 0 THEN Len(stream)
    ELSE NthFromTail(stream, SeekByte, h.backN)

\* concat.rs:553-557: a call on s takes the single-byte path.
SingleByte(s) == ~s.done /\ s.len # 0 /\ (s.len = 1 \/ s.oneleft)

\* The answer for the one byte at offset p.
AnswerAt(p) ==
    IF stream[p + 1] = SeekByte THEN OkR(p) ELSE ErrR("ByteNotFound")

\* C30: a call with exactly one unsearched byte left in its direction reads
\* that one byte and returns its absolute offset if it is the delimiter, else
\* fails with not-found; and the single-byte path is taken only with one byte
\* left, never with none.
C30_LastByteReadOnce ==
    [][/\ (call'.op = "seek" /\ FwdLeft(hist) = 1) =>
              /\ call'.reads = <<[pos |-> Len(stream) - 1, n |-> 1]>>
              /\ call'.res = AnswerAt(Len(stream) - 1)
       /\ (call'.op = "seek_back" /\ BackLeft(hist) = 1) =>
              /\ call'.reads = <<[pos |-> 0, n |-> 1]>>
              /\ call'.res = AnswerAt(0)
       /\ (call'.op = "seek" /\ SingleByte(sk)) => FwdLeft(hist) = 1
       /\ (call'.op = "seek_back" /\ SingleByte(sk)) => BackLeft(hist) = 1]_vars

\* C31: on a stream of length 0 both cursors are 0 from new() on, and every
\* seek and seek_back, the first and the later ones, fails with not-found
\* without a read or a seek on the stream.
C31_EmptyStreamFailsAtOnce ==
    Len(stream) = 0 =>
        /\ sk.lpos = 0 /\ sk.rpos = 0 /\ sk.ipos = 0
        /\ call.op \in {"seek", "seek_back"} =>
               (call.res = ErrR("ByteNotFound") /\ call.reads = <<>>)

\* A seek on the empty stream, after other calls on it.
C31_Witness ==
    /\ Len(stream) = 0 /\ call.op = "seek" /\ prev.phase = "used"
    /\ prev.backN = 0 /\ prev.backOut
    /\ call.res = ErrR("ByteNotFound")

\* What the claim calls the cursor state of a seeker.
CursorState(s) == <<s.lpos, s.rpos, s.done, s.oneleft>>

\* C32: a seek or seek_back that ends in Io on the first read it issues leaves
\* the forward cursor, the backward cursor and the exhaustion flags exactly
\* as they were before the call.
C32_FailedFirstReadKeepsCursors ==
    [][(/\ call'.op \in {"seek", "seek_back"}
        /\ call'.res.kind = "Io"
        /\ Len(call'.reads) = 1)
       => CursorState(sk') = CursorState(sk)]_vars

\* C36: every call of seek, seek_back, seek_nth and seek_nth_back returns, with
\* an offset or an error, after any sequence of earlier calls: no call is left
\* repeating an iteration of its chunk loop that searches nothing new.
C36_EveryCallReturns ==
    call.op \in SeekOps => call.res.kind # "Loops"

\* The offset one past the last byte of file that a part copied.
CopiedUpTo(part) == part.from + Len(part.content)

\* C33: with a tail line-skip of n >= 1, what is written for a file stops at
\* the resolved end offset: no byte at or after the n-th '\n' counted from the
\* tail of the file is written for it.
C33_TailSkipLimitsTheCopy ==
    (phase = "written" /\ view /\ opts.skip_end >= 1) =>
        \A i \in 1..Len(out.parts) :
            (out.parts[i].kind = "Ok"
             /\ NumOcc(paths[i], NL) >= opts.skip_end)
            => CopiedUpTo(out.parts[i]) <= NthFromTail(paths[i], NL, opts.skip_end)

\* C34: when the '\n' found as the tail boundary comes right after a '\r', the
\* content written for the file ends before that '\r': neither byte of the
\* CRLF is written.
C34_TailBoundaryTakesTheCR ==
    (phase = "written" /\ view /\ opts.skip_end >= 1) =>
        \A i \in 1..Len(out.parts) :
            (/\ out.parts[i].kind = "Ok"
             /\ NumOcc(paths[i], NL) >= opts.skip_end
             /\ NthFromTail(paths[i], NL, opts.skip_end) >= 1
             /\ paths[i][NthFromTail(paths[i], NL, opts.skip_end)] = CR)
            => CopiedUpTo(out.parts[i])
                   <= NthFromTail(paths[i], NL, opts.skip_end) - 1

\* C35: whatever builder calls came before, setters after open included, when
\* write runs on opened paths the flag that selects the raw copy agrees with
\* the options in force: view holds exactly when newline or header is set or
\* one of the two skip counts is not 0.
C35_ViewAgreesWithOptions ==
    (phase = "written" /\ Len(paths) >= 1) => view = ViewOf(opts)

\* C37: every read a seek or seek_back issues on the stream covers a range
\* [p, p + m) with 0 <= p, p + m <= length and m <= the chunk size, and the
\* first read of a forward call starts at the forward cursor: no byte at or
\* past the end of the stream is asked for.
C37_ReadsStayInside ==
    [][call'.op \in {"seek", "seek_back"} =>
          \A i \in 1..Len(call'.reads) :
              /\ call'.reads[i].pos >= 0
              /\ call'.reads[i].pos + call'.reads[i].n <= Len(stream)
              /\ call'.reads[i].n <= DEFUALT_CHUNK_SIZE
              /\ (call'.op = "seek" /\ i = 1) => call'.reads[i].pos = sk.lpos]_vars

\* C38: the countdown of seek_nth and seek_nth_back never goes below zero: no
\* request, the one for n = 0 included, ends in the overflow panic of
\* `counter -= 1`.
C38_CountdownStaysAboveZero ==
    call.op \in {"seek_nth", "seek_nth_back"} => call.res.kind # "Panic"

\* C39: the length of the seeker's buffer never exceeds the chunk size it was
\* allocated with: a call of seek, seek_back or their nth variants only ever
\* shortens it, and reset restores it to the chunk size.
C39_BufferWithinCapacity ==
    [][/\ 0 <= sk'.buflen /\ sk'.buflen <= DEFUALT_CHUNK_SIZE
       /\ call'.op \in SeekOps => sk'.buflen <= sk.buflen
       /\ call'.op = "reset" => sk'.buflen = DEFUALT_CHUNK_SIZE]_vars

\* A call that went through several chunks and cut the buffer for its last.
C39_Witness ==
    /\ call.op \in SeekOps /\ Len(call.reads) >= 2
    /\ sk.buflen < DEFUALT_CHUNK_SIZE /\ Len(stream) > DEFUALT_CHUNK_SIZE

====
